---------------------------- MODULE Spec2Model ----------------------------
(***************************************************************************)
(* Orchestration core of the imagepost repository:                         *)
(*   - the text cleaner strip_reasoning_tokens (summary_agent.py,          *)
(*     learning_agent.py),                                                 *)
(*   - the model client VeniceSummarizer._call_venice_api (summarizer.py), *)
(*   - the linear critical-analysis graph (summary_agent.py),              *)
(*   - the cyclic curriculum graph (learning_agent.py).                    *)
(* Texts are sequences of one-character strings, so that the regular       *)
(* expressions of the source are computed character by character.          *)
(***************************************************************************)
EXTENDS Integers, Sequences, FiniteSets, TLC

VARIABLES
    \* text cleaner, applied twice to one input
    content, cleaned, recleaned, cleaner_pc,
    \* model client: one call of _call_venice_api
    attempt,          \* the loop variable of "for attempt in range(max_retries)"
    requests,         \* the status codes the endpoint answered, one per client.post
    waits,            \* the asyncio.sleep durations, in order
    client_pc,        \* "idle", "loop", "returned", "raised"
    client_result,    \* the value returned or the exception raised
    \* critical-analysis pipeline: one call of analyze_article
    venice,           \* the attribute names of config.venice
    summary_state,    \* the SummaryState the graph threads through its nodes
    summary_node,     \* "idle", the node to run next, "END", "returned", "raised"
    summary_written,  \* the state keys some node's delta has written
    summary_calls,    \* the nodes executed so far, in order
    summary_replies,  \* the raw response.content each executed node received
    summary_error,    \* the exception analyze_article raises
    summary_result,   \* the dict analyze_article returns
    \* curriculum pipeline: one call of generate_learning_path
    planner_reply,    \* the response.content the reasoning model answers the planner
    learning_state,   \* the LearningState the graph threads through its nodes
    learning_node,    \* "idle", the node to run next, "END", "returned", "raised"
    learning_calls,   \* the nodes executed so far, in order
    learning_error,   \* the exception generate_learning_path raises
    learning_result,  \* the value generate_learning_path returns
    learning_images,  \* what generate_image returned to each designer run
    integrator_replies, \* the responses the integrator's model call returned
    \* two concurrent calls of analyze_article
    runs,             \* per call: its inputs, state, position and replies
    \* the web server: report ids, report_store and the background tasks
    clock,            \* datetime.now(), in whole seconds
    report_store,     \* the module-level dict report_store
    tasks             \* the background tasks added so far, in order

cleanerVars == <<content, cleaned, recleaned, cleaner_pc>>
clientVars == <<attempt, requests, waits, client_pc, client_result>>
summaryVars == <<venice, summary_state, summary_node, summary_written,
                 summary_calls, summary_replies, summary_error, summary_result>>
learningVars == <<planner_reply, learning_state, learning_node,
                  learning_calls, learning_error, learning_result,
                  learning_images, integrator_replies>>
serverVars == <<clock, report_store, tasks>>
vars == <<content, cleaned, recleaned, cleaner_pc,
          attempt, requests, waits, client_pc, client_result,
          venice, summary_state, summary_node, summary_written,
          summary_calls, summary_replies, summary_error, summary_result,
          planner_reply, learning_state, learning_node,
          learning_calls, learning_error, learning_result, learning_images,
          integrator_replies,
          runs, clock, report_store, tasks>>

\* the components a specification leaves out stay idle
CleanerIdle ==
    /\ content = <<>>
    /\ cleaned = <<>>
    /\ recleaned = <<>>
    /\ cleaner_pc = "idle"

ClientIdle ==
    /\ attempt = 0
    /\ requests = <<>>
    /\ waits = <<>>
    /\ client_pc = "idle"
    /\ client_result = [kind |-> "none"]

\* class VeniceConfig as config.py declares it
VeniceConfig ==
    {"api_key", "base_url", "summarization_model", "extraction_model",
     "image_model", "max_tokens", "temperature"}

NoState == [is_complete |-> FALSE]

SummaryIdle ==
    /\ venice = VeniceConfig
    /\ summary_state = NoState
    /\ summary_node = "idle"
    /\ summary_written = {}
    /\ summary_calls = <<>>
    /\ summary_replies = <<>>
    /\ summary_error = [kind |-> "none"]
    /\ summary_result = [kind |-> "none"]

LearningIdle ==
    /\ planner_reply = <<>>
    /\ learning_state = NoState
    /\ learning_node = "idle"
    /\ learning_calls = <<>>
    /\ learning_error = [kind |-> "none"]
    /\ learning_result = [kind |-> "none"]
    /\ learning_images = <<>>
    /\ integrator_replies = <<>>

RunsIdle == runs = <<>>

ServerIdle ==
    /\ clock = 0
    /\ report_store = <<>>
    /\ tasks = <<>>

----------------------------------------------------------------------------
(* Characters and Python string primitives                                 *)

UpperCase == <<"A","B","C","D","E","F","G","H","I","J","K","L","M",
               "N","O","P","Q","R","S","T","U","V","W","X","Y","Z">>
LowerCase == <<"a","b","c","d","e","f","g","h","i","j","k","l","m",
               "n","o","p","q","r","s","t","u","v","w","x","y","z">>

LowerOf == [c \in {UpperCase[i] : i \in 1..26} |->
              LowerCase[CHOOSE i \in 1..26 : UpperCase[i] = c]]

\* re.IGNORECASE on ASCII letters: compare the lower-cased character
Lower(c) == IF c \in DOMAIN LowerOf THEN LowerOf[c] ELSE c

\* \s of the re module and the characters str.strip() removes
Whitespace == {" ", "\n", "\t"}

Digits == <<"0","1","2","3","4","5","6","7","8","9">>
IsDigit(c) == \E i \in 1..10 : Digits[i] = c
DigitValue(c) == (CHOOSE i \in 1..10 : Digits[i] = c) - 1

Min(S) == CHOOSE x \in S : \A y \in S : x <= y
Max(S) == CHOOSE x \in S : \A y \in S : x >= y

\* s[i:]  (i is a 1-based position here)
Suffix(s, i) == SubSeq(s, i, Len(s))
\* s[:n]
Prefix(s, n) == SubSeq(s, 1, IF n < Len(s) THEN n ELSE Len(s))

\* the literal pat matches s at position i; ci = re.IGNORECASE
MatchAt(s, i, pat, ci) ==
    /\ i >= 1
    /\ i + Len(pat) - 1 <= Len(s)
    /\ \A k \in 1..Len(pat) :
         \/ s[i + k - 1] = pat[k]
         \/ ci /\ Lower(s[i + k - 1]) = pat[k]

\* first position >= i where pat matches, 0 when there is none
FindFrom(s, i, pat, ci) ==
    LET hits == {j \in i..Len(s) : MatchAt(s, j, pat, ci)}
    IN  IF hits = {} THEN 0 ELSE Min(hits)

\* last position where pat matches, 0 when there is none
FindLast(s, pat, ci) ==
    LET hits == {j \in 1..Len(s) : MatchAt(s, j, pat, ci)}
    IN  IF hits = {} THEN 0 ELSE Max(hits)

\* pat in s
Contains(s, pat, ci) == FindFrom(s, 1, pat, ci) # 0

\* str.strip()
PyStrip(s) ==
    LET keep == {i \in 1..Len(s) : s[i] \notin Whitespace}
    IN  IF keep = {} THEN <<>> ELSE SubSeq(s, Min(keep), Max(keep))

RECURSIVE Flatten(_)
Flatten(ss) == IF ss = <<>> THEN <<>> ELSE Head(ss) \o Flatten(Tail(ss))

----------------------------------------------------------------------------
(* Text cleaner: strip_reasoning_tokens                                    *)

thinking  == <<"t","h","i","n","k","i","n","g">>
reasoning == <<"r","e","a","s","o","n","i","n","g">>
think     == <<"t","h","i","n","k">>

OpenTag(name)  == <<"<">> \o name \o <<">">>
CloseTag(name) == <<"<", "/">> \o name \o <<">">>

\* re.sub(r'<name>.*?</name>', '', s, flags=re.DOTALL | re.IGNORECASE) on
\* s[from:]: scanning from the left, an opening tag followed somewhere by a
\* closing tag is removed up to the first such closing tag (lazy .*?), and
\* the scan resumes behind it; an opening tag with no closing tag behind it
\* ends the scan, for no later opening tag has one either
RECURSIVE SubBlockFrom(_, _, _)
SubBlockFrom(s, from, name) ==
    LET o == FindFrom(s, from, OpenTag(name), TRUE)
        c == IF o = 0 THEN 0
             ELSE FindFrom(s, o + Len(OpenTag(name)), CloseTag(name), TRUE)
    IN  IF o = 0 \/ c = 0 THEN Suffix(s, from)
        ELSE SubSeq(s, from, o - 1)
             \o SubBlockFrom(s, c + Len(CloseTag(name)), name)

SubBlock(s, name) == SubBlockFrom(s, 1, name)

\* re.sub(r'</?name>', '', s, flags=re.IGNORECASE) on s[from:]: one
\* left-to-right pass that removes each opening or closing tag it meets
RECURSIVE SubTagFrom(_, _, _)
SubTagFrom(s, from, name) ==
    LET o == FindFrom(s, from, OpenTag(name), TRUE)
        c == FindFrom(s, from, CloseTag(name), TRUE)
    IN  IF o = 0 /\ c = 0 THEN Suffix(s, from)
        ELSE IF c = 0 \/ (o # 0 /\ o < c)
             THEN SubSeq(s, from, o - 1)
                  \o SubTagFrom(s, o + Len(OpenTag(name)), name)
             ELSE SubSeq(s, from, c - 1)
                  \o SubTagFrom(s, c + Len(CloseTag(name)), name)

SubTag(s, name) == SubTagFrom(s, 1, name)

strip_reasoning_tokens(text) ==
    IF text = <<>> THEN text
    ELSE PyStrip(SubTag(SubTag(SubTag(
           SubBlock(SubBlock(SubBlock(text, thinking), reasoning), think),
           thinking), reasoning), think))

\* some tag of the three names, opening or closing, in any letter case
HasTag(s) ==
    \E name \in {thinking, reasoning, think} :
        Contains(s, OpenTag(name), TRUE) \/ Contains(s, CloseTag(name), TRUE)

----------------------------------------------------------------------------
(* Model client: VeniceSummarizer._call_venice_api                         *)

max_retries == 3

RateLimited == 429
\* the statuses response.raise_for_status() raises HTTPStatusError for
ErrorStatuses == {400, 401, 404, 500, 503}
\* the texts of a 200 answer (data["choices"][0]["message"]["content"])
Completions == {"summary-a", "summary-b"}

RECURSIVE Pow2(_)
Pow2(n) == IF n = 0 THEN 1 ELSE 2 * Pow2(n - 1)

ClientInit ==
    /\ attempt = 0
    /\ requests = <<>>
    /\ waits = <<>>
    /\ client_pc = "loop"
    /\ client_result = [kind |-> "none"]
    /\ CleanerIdle
    /\ SummaryIdle
    /\ LearningIdle
    /\ RunsIdle
    /\ ServerIdle

\* what "except ...: if attempt == max_retries - 1: raise" does with an
\* exception of the given kind raised inside the try block
\* a mutant: every exception is re-raised at once
OnException_raise_at_once(exc) ==
    /\ client_pc' = "raised"
    /\ client_result' = exc
    /\ UNCHANGED attempt

OnException(exc) ==
    IF attempt = max_retries - 1
    THEN /\ client_pc' = "raised"
         /\ client_result' = exc
         /\ UNCHANGED attempt
    ELSE /\ attempt' = attempt + 1
         /\ UNCHANGED <<client_pc, client_result>>

\* what follows "continue" after a 429: the next iteration, or, when the
\* range is exhausted, the statement after the loop
AfterRateLimit ==
    IF attempt + 1 < max_retries
    THEN /\ attempt' = attempt + 1
         /\ UNCHANGED <<client_pc, client_result>>
    ELSE /\ attempt' = attempt + 1
         /\ client_pc' = "returned"
         /\ client_result' = [kind |-> "text", text |-> ""]

\* the endpoint answers 200: the completion text is returned
PostOK ==
    /\ client_pc = "loop"
    /\ attempt < max_retries
    /\ \E text \in Completions :
         /\ requests' = Append(requests, 200)
         /\ client_pc' = "returned"
         /\ client_result' = [kind |-> "text", text |-> text]
    /\ UNCHANGED <<attempt, waits>>
    /\ UNCHANGED <<cleanerVars, summaryVars, learningVars, runs, serverVars>>

\* the endpoint answers 429: sleep 2 ** attempt, then continue
PostRateLimited ==
    /\ client_pc = "loop"
    /\ attempt < max_retries
    /\ requests' = Append(requests, RateLimited)
    /\ waits' = Append(waits, Pow2(attempt))
    /\ AfterRateLimit
    /\ UNCHANGED <<cleanerVars, summaryVars, learningVars, runs, serverVars>>

\* the endpoint answers another error status: raise_for_status() raises
\* httpx.HTTPStatusError, caught by the first except clause
PostHTTPError ==
    /\ client_pc = "loop"
    /\ attempt < max_retries
    /\ \E status \in ErrorStatuses :
         /\ requests' = Append(requests, status)
         /\ OnException([kind |-> "HTTPStatusError", status |-> status])
    /\ UNCHANGED waits
    /\ UNCHANGED <<cleanerVars, summaryVars, learningVars, runs, serverVars>>

\* the request fails without an answer (timeout, connection error), or a 200
\* answer has no choices: caught by "except Exception"
PostException ==
    /\ client_pc = "loop"
    /\ attempt < max_retries
    /\ \E exc \in {"TransportError", "KeyError"} :
         /\ requests' = Append(requests, IF exc = "KeyError" THEN 200 ELSE 0)
         /\ OnException([kind |-> exc])
    /\ UNCHANGED waits
    /\ UNCHANGED <<cleanerVars, summaryVars, learningVars, runs, serverVars>>

ClientNext == PostOK \/ PostRateLimited \/ PostHTTPError \/ PostException

ClientSpec == ClientInit /\ [][ClientNext]_vars

----------------------------------------------------------------------------
(* Critical-analysis pipeline: summary_agent.py                            *)

\* canned response.content texts of the model
TextPlain == <<"o","k">>
TextThink == <<"<","t","h","i","n","k",">","x","<","/","t","h","i","n","k",">","k","e","p","t">>
TextPadded == <<" ","a","\n">>
TextKeyPoints == <<"*","*","A","R","T","I","C","L","E"," ","K","E","Y"," ","P","O","I","N","T","S"," ","S","U","M","M","A","R","Y",":","*","*","\n","1","."," ","p","\n","*","*","C","o","r","e"," ","C","l","a","i","m",":","*","*"," ","c">>
ScoreSeven == <<"S","c","o","r","e",":"," ","7","/","1","0">>
ScoreNoSpace == <<"-"," ","S","c","o","r","e",":","\n","3","/","1","0",".">>
ScoreZero == <<"S","c","o","r","e",":"," ","0","/","1","0">>
ScoreFifteen == <<"S","c","o","r","e",":"," ","1","5","/","1","0">>
ScoreHundred == <<"S","c","o","r","e",":"," ","9","/","1","0","0">>
ScoreLower == <<"s","c","o","r","e",":"," ","7","/","1","0">>
ScoreHidden == <<"<","t","h","i","n","k",">","S","c","o","r","e",":"," ","9","/","1","0","<","/","t","h","i","n","k",">","n","o","n","e">>
ScoreBracket == <<"S","c","o","r","e",":"," ","[","8","/","1","0","]">>
TextEmpty == <<>>

\* response.content of the fast model (recon, extraction, synthesis)
FastReplies == {TextThink, TextPadded, TextKeyPoints, TextEmpty}
\* response.content of the reasoning model (challenger)
ReasoningReplies ==
    {ScoreSeven, ScoreNoSpace, ScoreZero, ScoreFifteen, ScoreHundred,
     ScoreLower, ScoreHidden, ScoreBracket, TextPlain}

ArticleTexts == {"article"}
ArticleTitles == {"", "AI"}
ArticleUrls == {"http://x"}

ScoreToken == <<"S","c","o","r","e",":">>
SlashTen == <<"/","1","0">>
DefaultConfidence == 5

RECURSIVE SkipSpaces(_, _)
SkipSpaces(s, i) ==
    IF i <= Len(s) /\ s[i] \in Whitespace THEN SkipSpaces(s, i + 1) ELSE i

RECURSIVE SkipDigits(_, _)
SkipDigits(s, i) ==
    IF i <= Len(s) /\ IsDigit(s[i]) THEN SkipDigits(s, i + 1) ELSE i

\* int() of a run of decimal digits
RECURSIVE ToInt(_)
ToInt(ds) ==
    IF ds = <<>> THEN 0
    ELSE 10 * ToInt(SubSeq(ds, 1, Len(ds) - 1)) + DigitValue(ds[Len(ds)])

\* r'Score:\s*(\d+)/10' matches at position i (case-sensitive)
ScoreMatchAt(s, i) ==
    LET j == SkipSpaces(s, i + Len(ScoreToken))
        k == SkipDigits(s, j)
    IN  /\ MatchAt(s, i, ScoreToken, FALSE)
        /\ k > j
        /\ MatchAt(s, k, SlashTen, FALSE)

\* re.search(r'Score:\s*(\d+)/10', s): the position of the first match, or 0
score_match(s) ==
    LET hits == {i \in 1..Len(s) : ScoreMatchAt(s, i)}
    IN  IF hits = {} THEN 0 ELSE Min(hits)

\* a mutant: the default is the lowest score instead of the neutral one
confidence_score_default_one(challenger_output) ==
    LET i == score_match(challenger_output)
        j == SkipSpaces(challenger_output, i + Len(ScoreToken))
        k == SkipDigits(challenger_output, j)
    IN  IF i = 0 THEN 1
        ELSE ToInt(SubSeq(challenger_output, j, k - 1))

\* confidence_score = 5; if score_match: int(score_match.group(1))
confidence_score(challenger_output) ==
    LET i == score_match(challenger_output)
        j == SkipSpaces(challenger_output, i + Len(ScoreToken))
        k == SkipDigits(challenger_output, j)
    IN  IF i = 0 THEN DefaultConfidence
        ELSE ToInt(SubSeq(challenger_output, j, k - 1))

KeyPointsMarker == <<"K","E","Y"," ","P","O","I","N","T","S"," ","S","U","M","M","A","R","Y">>
KeyPointsHeader == <<"*","*","A","R","T","I","C","L","E"," ","K","E","Y"," ","P","O","I","N","T","S"," ","S","U","M","M","A","R","Y",":","*","*">>
CoreClaimMark == <<"*","*","C","o","r","e"," ","C","l","a","i","m">>
RuleMark == <<"*","*","-","-","-">>
InfographicBudget == 2000

\* group(1).strip() of r'\*\*ARTICLE KEY POINTS SUMMARY:\*\*(.*?)
\* (?=\*\*Core Claim|\*\*---|\Z)', or "" when the section is absent
key_points_section(extraction_output) ==
    LET h == FindFrom(extraction_output, 1, KeyPointsHeader, FALSE)
        b == h + Len(KeyPointsHeader)
        stops == {i \in b..Len(extraction_output) :
                    \/ MatchAt(extraction_output, i, CoreClaimMark, FALSE)
                    \/ MatchAt(extraction_output, i, RuleMark, FALSE)}
        e == IF stops = {} THEN Len(extraction_output) + 1 ELSE Min(stops)
    IN  IF Contains(extraction_output, KeyPointsMarker, FALSE) /\ h # 0
        THEN PyStrip(SubSeq(extraction_output, b, e - 1))
        ELSE <<>>

\* the parts the infographic prompt interpolates: the title, the key points
\* (or extraction_output[:2000]) and the confidence score
infographic_prompt(state) ==
    LET kp == key_points_section(state.extraction_output)
    IN  << state.article_title,
           IF kp # <<>> THEN kp
           ELSE Prefix(state.extraction_output, InfographicBudget),
           state.confidence_score >>

\* StateGraph: a node's delta is merged into the state key by key
Merge(state, delta) ==
    [k \in DOMAIN state |-> IF k \in DOMAIN delta THEN delta[k] ELSE state[k]]

\* the state deltas the four nodes return
ReconDelta(state, reply) ==
    [recon_output |-> strip_reasoning_tokens(reply)]

ExtractionDelta(state, reply) ==
    [extraction_output |-> strip_reasoning_tokens(reply)]

\* a mutant: the challenger already declares the run complete
ChallengerDelta_completes(state, reply) ==
    [challenger_output |-> strip_reasoning_tokens(reply),
     confidence_score |-> confidence_score(strip_reasoning_tokens(reply)),
     is_complete |-> TRUE]

ChallengerDelta(state, reply) ==
    [challenger_output |-> strip_reasoning_tokens(reply),
     confidence_score |-> confidence_score(strip_reasoning_tokens(reply))]

\* a mutant: the synthesis delta carries the whole state, its score re-derived
\* from the synthesis text
SynthesisDelta_full_state(state, reply) ==
    [recon_output |-> state.recon_output,
     extraction_output |-> state.extraction_output,
     challenger_output |-> state.challenger_output,
     confidence_score |-> confidence_score(strip_reasoning_tokens(reply)),
     synthesis_output |-> strip_reasoning_tokens(reply),
     final_summary |-> strip_reasoning_tokens(reply),
     infographic_prompt |-> infographic_prompt(state),
     is_complete |-> TRUE]

SynthesisDelta(state, reply) ==
    [synthesis_output |-> strip_reasoning_tokens(reply),
     final_summary |-> strip_reasoning_tokens(reply),
     infographic_prompt |-> infographic_prompt(state),
     is_complete |-> TRUE]

\* the graph: set_entry_point and add_edge
EntryPoint == "reconnaissance"

\* a mutant: the edges out of extraction and challenger are swapped
Edge_swapped(node) ==
    CASE node = "reconnaissance" -> "challenger"
      [] node = "challenger" -> "extraction"
      [] node = "extraction" -> "synthesis"
      [] node = "synthesis" -> "END"

Edge(node) ==
    CASE node = "reconnaissance" -> "extraction"
      [] node = "extraction" -> "challenger"
      [] node = "challenger" -> "synthesis"
      [] node = "synthesis" -> "END"

\* SummaryAgents.__init__ reads config.venice.reasoning_model
SummaryAgentsReads == {"api_key", "base_url", "reasoning_model"}

\* the initial SummaryState of analyze_article
InitialState(article_text, article_title, article_url) ==
    [article_text |-> article_text,
     article_title |-> IF article_title = "" THEN "Untitled Article"
                       ELSE article_title,
     article_url |-> article_url,
     recon_output |-> <<>>,
     extraction_output |-> <<>>,
     challenger_output |-> <<>>,
     synthesis_output |-> <<>>,
     final_summary |-> <<>>,
     confidence_score |-> DefaultConfidence,
     infographic_prompt |-> <<>>,
     infographic_url |-> "",
     is_complete |-> FALSE]

\* the configurations analyze_article is started under: VeniceConfig as
\* config.py declares it, and a VeniceConfig that also declares the
\* reasoning_model the two agent classes read
SummaryInit ==
    /\ venice \in {VeniceConfig, VeniceConfig \cup {"reasoning_model"}}
    /\ summary_state = NoState
    /\ summary_node = "idle"
    /\ summary_written = {}
    /\ summary_calls = <<>>
    /\ summary_replies = <<>>
    /\ summary_error = [kind |-> "none"]
    /\ summary_result = [kind |-> "none"]
    /\ CleanerIdle
    /\ ClientIdle
    /\ LearningIdle
    /\ RunsIdle
    /\ ServerIdle

\* analyze_article up to graph.ainvoke: build_summary_graph() constructs
\* SummaryAgents, whose __init__ raises AttributeError for an attribute
\* config.venice lacks; then the initial state enters the entry point
analyze_article ==
    /\ summary_node = "idle"
    /\ \E text \in ArticleTexts, title \in ArticleTitles, url \in ArticleUrls :
         IF SummaryAgentsReads \subseteq venice
         THEN /\ summary_state' = InitialState(text, title, url)
              /\ summary_node' = EntryPoint
              /\ UNCHANGED summary_error
         ELSE /\ summary_node' = "raised"
              /\ summary_error' = [kind |-> "AttributeError", node |-> "build"]
              /\ UNCHANGED summary_state
    /\ UNCHANGED <<venice, summary_written, summary_calls, summary_replies,
                   summary_result>>
    /\ UNCHANGED <<cleanerVars, clientVars, learningVars, runs, serverVars>>

\* a mutant: a failing model call is recorded and the graph moves on to the
\* next node
RunNode_moves_on(node, replies) ==
    /\ summary_node = node
    /\ \/ \E reply \in replies :
            LET delta ==
                  CASE node = "reconnaissance" -> ReconDelta(summary_state, reply)
                    [] node = "extraction" -> ExtractionDelta(summary_state, reply)
                    [] node = "challenger" -> ChallengerDelta(summary_state, reply)
                    [] node = "synthesis" -> SynthesisDelta(summary_state, reply)
            IN  /\ summary_state' = Merge(summary_state, delta)
                /\ summary_written' = summary_written \cup DOMAIN delta
                /\ summary_replies' = Append(summary_replies, reply)
                /\ summary_calls' = Append(summary_calls, node)
                /\ summary_node' = Edge(node)
                /\ UNCHANGED summary_error
       \/ /\ summary_node' = Edge(node)
          /\ summary_error' = [kind |-> "ModelCallFailed", node |-> node]
          /\ summary_calls' = Append(summary_calls, node)
          /\ UNCHANGED <<summary_state, summary_written, summary_replies>>
    /\ UNCHANGED <<venice, summary_result>>
    /\ UNCHANGED <<cleanerVars, clientVars, learningVars, runs, serverVars>>

\* one node: the model answers with reply and the node's delta is merged,
\* or the model call raises and the run ends with that exception
RunNode(node, replies) ==
    /\ summary_node = node
    /\ \/ \E reply \in replies :
            LET delta ==
                  CASE node = "reconnaissance" -> ReconDelta(summary_state, reply)
                    [] node = "extraction" -> ExtractionDelta(summary_state, reply)
                    [] node = "challenger" -> ChallengerDelta(summary_state, reply)
                    [] node = "synthesis" -> SynthesisDelta(summary_state, reply)
            IN  /\ summary_state' = Merge(summary_state, delta)
                /\ summary_written' = summary_written \cup DOMAIN delta
                /\ summary_replies' = Append(summary_replies, reply)
                /\ summary_calls' = Append(summary_calls, node)
                /\ summary_node' = Edge(node)
                /\ UNCHANGED summary_error
       \/ /\ summary_node' = "raised"
          /\ summary_error' = [kind |-> "ModelCallFailed", node |-> node]
          /\ summary_calls' = Append(summary_calls, node)
          /\ UNCHANGED <<summary_state, summary_written, summary_replies>>
    /\ UNCHANGED <<venice, summary_result>>
    /\ UNCHANGED <<cleanerVars, clientVars, learningVars, runs, serverVars>>

reconnaissance_scanner == RunNode("reconnaissance", FastReplies)
extraction_engine == RunNode("extraction", FastReplies)
type2_challenger == RunNode("challenger", ReasoningReplies)
synthesis_composer == RunNode("synthesis", FastReplies)

\* the dict analyze_article returns for a final state
AnalysisData(state) ==
    [kind |-> "dict",
     recon_output |-> state.recon_output,
     extraction_output |-> state.extraction_output,
     challenger_output |-> state.challenger_output,
     synthesis_output |-> state.synthesis_output,
     final_summary |-> state.final_summary,
     confidence_score |-> state.confidence_score,
     infographic_prompt |-> state.infographic_prompt]

\* analyze_article after graph.ainvoke: the returned dict
analyze_return ==
    /\ summary_node = "END"
    /\ summary_node' = "returned"
    /\ summary_result' = AnalysisData(summary_state)
    /\ UNCHANGED <<venice, summary_state, summary_written, summary_calls,
                   summary_replies, summary_error>>
    /\ UNCHANGED <<cleanerVars, clientVars, learningVars, runs, serverVars>>

Next ==
    \/ analyze_article
    \/ reconnaissance_scanner
    \/ extraction_engine
    \/ type2_challenger
    \/ synthesis_composer
    \/ analyze_return

Init == SummaryInit

Spec == Init /\ [][Next]_vars

----------------------------------------------------------------------------
(* Curriculum pipeline: learning_agent.py                                  *)

MaxChapters == 5

Quote == <<"\"">>
Quoted(text) == Quote \o text \o Quote
KeyChapters == <<"c","h","a","p","t","e","r","s">>
KeyTitle == <<"t","i","t","l","e">>
KeyDescription == <<"d","e","s","c","r","i","p","t","i","o","n">>
\* the grave accent U+0060, which a TLA+ string cannot hold
Backtick == "grave"
Fence == <<Backtick, Backtick, Backtick>>
FenceJson == Fence \o <<"j","s","o","n">>
PromptColon == <<"p","r","o","m","p","t",":">>

TitleOf(i) == <<UpperCase[i]>>
DescriptionOf(i) == <<LowerCase[i]>>

\* the JSON text of one planned chapter (the first one with a description,
\* the others with a title only), and of n of them, comma-separated
ChapterJson(i) ==
    IF i = 1
    THEN <<"{">> \o Quoted(KeyTitle) \o <<":">> \o Quoted(TitleOf(i)) \o <<",">>
                 \o Quoted(KeyDescription) \o <<":">> \o Quoted(DescriptionOf(i))
                 \o <<"}">>
    ELSE <<"{">> \o Quoted(KeyTitle) \o <<":">> \o Quoted(TitleOf(i)) \o <<"}">>

RECURSIVE ChaptersJson(_)
ChaptersJson(n) ==
    IF n = 0 THEN <<>>
    ELSE IF n = 1 THEN ChapterJson(1)
    ELSE ChaptersJson(n - 1) \o <<",">> \o ChapterJson(n)

ObjectWith(key, value) ==
    <<"{">> \o Quoted(key) \o <<":">> \o value \o <<"}">>

\* {"chapters":[ n chapters ]}
DocChapters(n) == ObjectWith(KeyChapters, <<"[">> \o ChaptersJson(n) \o <<"]">>)
\* {"plan":[]}: an object without a chapters key
DocNoKey == ObjectWith(<<"p","l","a","n">>, <<"[","]">>)
\* {"chapters":"ab"}
DocString == ObjectWith(KeyChapters, Quoted(<<"a","b">>))
\* {"chapters":null}
DocNull == ObjectWith(KeyChapters, <<"n","u","l","l">>)
\* {"chapters":[1]}
DocNumberItem == ObjectWith(KeyChapters, <<"[","1","]">>)
\* {"chapters":[{"description":"d"}]}
DocNoTitle ==
    ObjectWith(KeyChapters,
               <<"[">> \o ObjectWith(KeyDescription, Quoted(<<"d">>)) \o <<"]">>)
\* {"chapters":[{"title":""}]}
DocEmptyTitle ==
    ObjectWith(KeyChapters,
               <<"[">> \o ObjectWith(KeyTitle, Quoted(<<>>)) \o <<"]">>)
\* {"chapters":[   (cut short)
DocTruncated == <<"{">> \o Quoted(KeyChapters) \o <<":", "[">>

Dict(d) == [type |-> "dict", dict |-> d]

\* the JSON documents among the texts the planner can hand to json.loads,
\* each with the value json.loads returns for it; json.loads raises
\* JSONDecodeError for every other text
JsonDocuments ==
    { [text |-> DocChapters(n),
       data |-> [has_chapters |-> TRUE,
                 chapters |-> [type |-> "list",
                               items |-> [i \in 1..n |->
                                   IF i = 1
                                   THEN Dict([title |-> TitleOf(i),
                                              description |-> DescriptionOf(i)])
                                   ELSE Dict([title |-> TitleOf(i)])]]]]
      : n \in 0..MaxChapters }
    \cup
    { [text |-> DocNoKey, data |-> [has_chapters |-> FALSE]],
      [text |-> DocString,
       data |-> [has_chapters |-> TRUE,
                 chapters |-> [type |-> "str", text |-> <<"a","b">>]]],
      [text |-> DocNull,
       data |-> [has_chapters |-> TRUE, chapters |-> [type |-> "null"]]],
      [text |-> DocNumberItem,
       data |-> [has_chapters |-> TRUE,
                 chapters |-> [type |-> "list",
                               items |-> <<[type |-> "int"]>>]]],
      [text |-> DocNoTitle,
       data |-> [has_chapters |-> TRUE,
                 chapters |-> [type |-> "list",
                               items |-> <<Dict([description |-> <<"d">>])>>]]],
      [text |-> DocEmptyTitle,
       data |-> [has_chapters |-> TRUE,
                 chapters |-> [type |-> "list",
                               items |-> <<Dict([title |-> <<>>])>>]]] }

\* json.loads(text): surrounding whitespace is ignored
json_loads(text) ==
    LET t == PyStrip(text)
        docs == {d \in JsonDocuments : d.text = t}
    IN  IF docs = {} THEN [ok |-> FALSE]
        ELSE [ok |-> TRUE, data |-> (CHOOSE d \in docs : TRUE).data]

\* s.split(sep)[0]
SplitFirst(s, sep) ==
    LET i == FindFrom(s, 1, sep, FALSE)
    IN  IF i = 0 THEN s ELSE SubSeq(s, 1, i - 1)

\* s.split(sep)[1], for a sep that occurs in s
SplitSecond(s, sep) ==
    SplitFirst(Suffix(s, FindFrom(s, 1, sep, FALSE) + Len(sep)), sep)

\* s.split(sep)[-1]
SplitLast(s, sep) ==
    LET i == FindLast(s, sep, FALSE)
    IN  IF i = 0 THEN s ELSE Suffix(s, i + Len(sep))

\* "Clean markdown code blocks if present"
Unfenced(text) ==
    IF Contains(text, FenceJson, FALSE)
    THEN PyStrip(SplitFirst(SplitSecond(text, FenceJson), Fence))
    ELSE IF Contains(text, Fence, FALSE)
         THEN PyStrip(SplitFirst(SplitSecond(text, Fence), Fence))
         ELSE text

\* the text handed to json.loads: the unfenced text when it starts with "{",
\* else the match of r'\{[\s\S]*\}' (first "{" to last "}"), else ValueError
JsonCandidate(text) ==
    LET c == Unfenced(text)
        a == FindFrom(c, 1, <<"{">>, FALSE)
        b == FindLast(c, <<"}">>, FALSE)
    IN  IF MatchAt(PyStrip(c), 1, <<"{">>, FALSE)
        THEN [found |-> TRUE, text |-> c]
        ELSE IF a # 0 /\ b > a
             THEN [found |-> TRUE, text |-> SubSeq(c, a, b)]
             ELSE [found |-> FALSE]

NewChapter(title, description) ==
    [title |-> title, description |-> description, content |-> <<>>,
     image_prompt |-> <<>>, image_url |-> <<>>, review_content |-> <<>>]

DefaultTitle == <<"C","h","a","p","t","e","r">>

\* the loop "for ch in data.get("chapters", [])": the chapters built, or
\* raised when iterating or ch.get raises (TypeError, AttributeError)
ChaptersOf(data) ==
    IF ~data.has_chapters THEN [raised |-> FALSE, chapters |-> <<>>]
    ELSE IF data.chapters.type = "null" THEN [raised |-> TRUE]
    ELSE IF data.chapters.type = "str"
         THEN IF data.chapters.text = <<>>
              THEN [raised |-> FALSE, chapters |-> <<>>]
              ELSE [raised |-> TRUE]
    ELSE IF \E i \in DOMAIN data.chapters.items :
                 data.chapters.items[i].type # "dict"
         THEN [raised |-> TRUE]
         ELSE [raised |-> FALSE,
               chapters |->
                 [i \in DOMAIN data.chapters.items |->
                    LET ch == data.chapters.items[i].dict
                    IN  NewChapter(
                          IF "title" \in DOMAIN ch THEN ch.title
                          ELSE DefaultTitle,
                          IF "description" \in DOMAIN ch THEN ch.description
                          ELSE <<>>)]]

\* the body of the planner's try block: the chapters extracted from the
\* cleaned response, or raised for any exception inside it
Extracted(text) ==
    LET cand == JsonCandidate(text)
        parsed == json_loads(cand.text)
        built == ChaptersOf(parsed.data)
    IN  IF ~cand.found THEN [raised |-> TRUE]
        ELSE IF ~parsed.ok THEN [raised |-> TRUE]
        ELSE IF built.raised THEN [raised |-> TRUE]
        ELSE IF built.chapters = <<>> THEN [raised |-> TRUE]
        ELSE built

IntroductionTo == <<"I","n","t","r","o","d","u","c","t","i","o","n"," ","t","o"," ">>
Understanding == <<"U","n","d","e","r","s","t","a","n","d","i","n","g"," ">>
Applying == <<"A","p","p","l","y","i","n","g"," ">>

\* a mutant: the fallback curriculum is empty
FallbackCurriculum_empty(topic) == <<>>

\* the curriculum of the except clause
FallbackCurriculum(topic) ==
    << NewChapter(IntroductionTo \o topic, <<"O","v","e","r","v","i","e","w"," ","o","f"," ","t","h","e"," ","c","o","n","c","e","p","t">>),
       NewChapter(Understanding \o topic, <<"C","o","r","e"," ","d","e","t","a","i","l","s"," ","a","n","d"," ","m","e","c","h","a","n","i","c","s">>),
       NewChapter(Applying \o topic, <<"S","u","m","m","a","r","y"," ","a","n","d"," ","p","r","a","c","t","i","c","a","l"," ","a","p","p","l","i","c","a","t","i","o","n">>) >>

\* response.content texts of the reasoning model for the planner: each JSON
\* document bare, fenced, with prose or a reasoning block around it, and
\* answers without any JSON
PlannerDocs ==
    {DocChapters(n) : n \in 0..MaxChapters}
    \cup {DocNoKey, DocString, DocNull, DocNumberItem, DocNoTitle,
          DocEmptyTitle, DocTruncated}

Prose == <<"P","l","a","n",":"," ">>
Apology == <<"S","o","r","r","y",".">>

Wrappings(doc) ==
    { doc,
      <<"\n">> \o doc \o <<" ">>,
      FenceJson \o <<"\n">> \o doc \o <<"\n">> \o Fence,
      Fence \o <<"\n">> \o doc \o <<"\n">> \o Fence,
      Prose \o doc,
      doc \o Prose,
      Prose \o doc \o <<" ","{","o","k","}">>,
      <<"<","t","h","i","n","k",">","{","x","}","<","/","t","h","i","n","k",">">> \o doc }

PlannerReplies ==
    UNION {Wrappings(doc) : doc \in PlannerDocs} \cup {Apology, TextEmpty}

\* the planner responses the whole pipeline is run on: one per curriculum
\* length, one without a title, one that makes the planner fall back
PipelinePlannerReplies ==
    {DocChapters(n) : n \in 1..MaxChapters} \cup {DocNoTitle, Apology}

WriterReplies == {TextThink}
DesignerPlain == <<"a"," ","f","o","x">>
DesignerLabelled == <<"I","m","a","g","e"," ","p","r","o","m","p","t",":"," ","\"","a"," ","m","a","p","\"">>
DesignerReplies == {DesignerPlain, DesignerLabelled}
IntegratorReplies == {TextThink, TextEmpty}
\* generate_image: a GeneratedImage, or None
NoImage == "None"
ImageResults == {"image", NoImage}
\* how the request inside generate_image ends: a response with an image, a
\* response without one, an HTTP error status, any other exception
ImageOutcomes == {"image", "no_images", "http_error", "exception"}
\* generate_image: both except clauses and the missing image fall through
\* to "return None"
generate_image(outcome) == IF outcome = "image" THEN "image" ELSE NoImage

Topics == {<<>>, <<"g","o">>}
PipelineTopics == {<<"g","o">>}
EducationLevels == {"High School"}

\* the delta planner_agent returns for a response.content
\* a mutant: the planner leaves the index at the second chapter
PlannerDelta_index_one(reply, topic) ==
    LET got == Extracted(strip_reasoning_tokens(reply))
    IN  [curriculum |-> IF got.raised THEN FallbackCurriculum(topic)
                        ELSE got.chapters,
         current_chapter_index |-> 1]

PlannerDelta(reply, topic) ==
    LET got == Extracted(strip_reasoning_tokens(reply))
    IN  [curriculum |-> IF got.raised THEN FallbackCurriculum(topic)
                        ELSE got.chapters,
         current_chapter_index |-> 0]

\* LearningAgents.__init__ reads these attributes of config.venice (the
\* last one in VeniceImageGenerator.__init__)
LearningAgentsReads ==
    {"api_key", "base_url", "reasoning_model", "summarization_model",
     "extraction_model", "image_model"}

\* the initial LearningState of generate_learning_path
LearningInitialState(topic, education_level) ==
    [topic |-> topic,
     education_level |-> education_level,
     curriculum |-> <<>>,
     current_chapter_index |-> 0,
     final_report |-> "",
     is_complete |-> FALSE]

\* "Clean up the prompt if it has extra text"
CleanImagePrompt(text) ==
    LET p == IF Contains(text, PromptColon, TRUE)
             THEN PyStrip(SplitLast(text, PromptColon))
             ELSE text
    IN  IF MatchAt(p, 1, Quote, FALSE) /\ MatchAt(p, Len(p), Quote, FALSE)
        THEN SubSeq(p, 2, Len(p) - 1)
        ELSE p

\* f"data:image/webp;base64,{b64_img}"
DataUrl(image) == <<"data:image/webp;base64", image>>

\* a mutant: the writer stores the text in every chapter
WriterDelta_all_chapters(state, reply) ==
    [curriculum |->
       [j \in DOMAIN state.curriculum |->
          [state.curriculum[j] EXCEPT !.content = strip_reasoning_tokens(reply)]]]

\* chapters[index]["content"] = strip_reasoning_tokens(response.content)
WriterDelta(state, reply) ==
    [curriculum |->
       [state.curriculum EXCEPT
          ![state.current_chapter_index + 1].content = strip_reasoning_tokens(reply)]]

\* a mutant: a chapter without an image gets a placeholder image_url
DesignerDelta_placeholder(state, reply, image) ==
    LET prompt == CleanImagePrompt(strip_reasoning_tokens(reply))
        i == state.current_chapter_index + 1
    IN  [curriculum |->
           [state.curriculum EXCEPT ![i].image_url = DataUrl(image),
                                    ![i].image_prompt = prompt]]

\* the designer's delta: image_url and image_prompt are set only when
\* generate_image returned an image
DesignerDelta(state, reply, image) ==
    LET prompt == CleanImagePrompt(strip_reasoning_tokens(reply))
        i == state.current_chapter_index + 1
    IN  [curriculum |->
           IF image # NoImage
           THEN [state.curriculum EXCEPT ![i].image_url = DataUrl(image),
                                         ![i].image_prompt = prompt]
           ELSE state.curriculum]

\* a mutant: the iterator moves on by two chapters
IteratorDelta_skips(state) ==
    IF state.current_chapter_index + 2 < Len(state.curriculum)
    THEN [current_chapter_index |-> state.current_chapter_index + 2]
    ELSE [is_complete |-> TRUE]

\* a mutant: the iterator moves past the last chapter (next_index <= len)
IteratorDelta_past_end(state) ==
    IF state.current_chapter_index + 1 <= Len(state.curriculum)
    THEN [current_chapter_index |-> state.current_chapter_index + 1]
    ELSE [is_complete |-> TRUE]

\* a mutant: the last chapter is skipped (next_index < len - 1)
IteratorDelta_stops_early(state) ==
    IF state.current_chapter_index + 1 < Len(state.curriculum) - 1
    THEN [current_chapter_index |-> state.current_chapter_index + 1]
    ELSE [is_complete |-> TRUE]

\* iterator_node
IteratorDelta(state) ==
    IF state.current_chapter_index + 1 < Len(state.curriculum)
    THEN [current_chapter_index |-> state.current_chapter_index + 1]
    ELSE [is_complete |-> TRUE]

\* a mutant: the review is stored in the last chapter
IntegratorDelta_last_chapter(state, reply) ==
    LET review == strip_reasoning_tokens(reply)
    IN  [curriculum |->
           IF state.curriculum # <<>> /\ review # <<>>
           THEN [state.curriculum EXCEPT
                   ![Len(state.curriculum)].review_content = review]
           ELSE state.curriculum,
         final_report |-> "Compiled"]

\* integrator_agent: the review is stored in the first chapter when there
\* is a chapter and the review is not empty
IntegratorDelta(state, reply) ==
    LET review == strip_reasoning_tokens(reply)
    IN  [curriculum |->
           IF state.curriculum # <<>> /\ review # <<>>
           THEN [state.curriculum EXCEPT ![1].review_content = review]
           ELSE state.curriculum,
         final_report |-> "Compiled"]

\* check_completion, the conditional edge out of the iterator
check_completion(state) ==
    IF state.is_complete THEN "integrator" ELSE "research_write"

\* a mutant: the designer is wired before the writer
LearningEdge_design_first(node, state) ==
    CASE node = "planner" -> "designer"
      [] node = "designer" -> "research_write"
      [] node = "research_write" -> "iterator"
      [] node = "iterator" -> check_completion(state)
      [] node = "integrator" -> "END"

\* add_edge and add_conditional_edges of build_learning_graph
LearningEdge(node, state) ==
    CASE node = "planner" -> "research_write"
      [] node = "research_write" -> "designer"
      [] node = "designer" -> "iterator"
      [] node = "iterator" -> check_completion(state)
      [] node = "integrator" -> "END"

\* generate_learning_path up to graph.ainvoke: build_learning_graph()
\* constructs LearningAgents, whose __init__ raises AttributeError for an
\* attribute config.venice lacks; then the initial state enters the planner
generate_learning_path ==
    /\ learning_node = "idle"
    /\ IF LearningAgentsReads \subseteq venice
       THEN /\ learning_node' = "planner"
            /\ UNCHANGED learning_error
       ELSE /\ learning_node' = "raised"
            /\ learning_error' = [kind |-> "AttributeError", node |-> "build"]
    /\ UNCHANGED <<planner_reply, learning_state, learning_calls, learning_result,
                   learning_images, integrator_replies>>
    /\ UNCHANGED <<cleanerVars, clientVars, summaryVars, runs, serverVars>>

\* a node ran: its delta is merged and control follows the edge
LearningStep(node, delta) ==
    /\ learning_state' = Merge(learning_state, delta)
    /\ learning_calls' = Append(learning_calls, node)
    /\ learning_node' = LearningEdge(node, Merge(learning_state, delta))
    /\ UNCHANGED learning_error

\* a node raised: the run ends with the exception
LearningRaise(node, kind) ==
    /\ learning_node' = "raised"
    /\ learning_error' = [kind |-> kind, node |-> node]
    /\ learning_calls' = Append(learning_calls, node)
    /\ UNCHANGED learning_state

planner_agent ==
    /\ learning_node = "planner"
    /\ \/ LearningRaise("planner", "ModelCallFailed")
       \/ LearningStep("planner",
                       PlannerDelta(planner_reply, learning_state.topic))
    /\ UNCHANGED <<planner_reply, learning_result, learning_images,
                   integrator_replies>>
    /\ UNCHANGED <<cleanerVars, clientVars, summaryVars, runs, serverVars>>

\* chapters[index] raises IndexError for an index past the list
InRange(state) ==
    state.current_chapter_index + 1 \in DOMAIN state.curriculum

researcher_writer_agent ==
    /\ learning_node = "research_write"
    /\ IF ~InRange(learning_state)
       THEN LearningRaise("research_write", "IndexError")
       ELSE \/ LearningRaise("research_write", "ModelCallFailed")
            \/ \E reply \in WriterReplies :
                 LearningStep("research_write", WriterDelta(learning_state, reply))
    /\ UNCHANGED <<planner_reply, learning_result, learning_images,
                   integrator_replies>>
    /\ UNCHANGED <<cleanerVars, clientVars, summaryVars, runs, serverVars>>

designer_agent ==
    /\ learning_node = "designer"
    /\ IF ~InRange(learning_state)
       THEN /\ LearningRaise("designer", "IndexError")
            /\ UNCHANGED learning_images
       ELSE \/ /\ LearningRaise("designer", "ModelCallFailed")
               /\ UNCHANGED learning_images
            \/ \E reply \in DesignerReplies, outcome \in ImageOutcomes :
                 /\ LearningStep("designer",
                                 DesignerDelta(learning_state, reply,
                                               generate_image(outcome)))
                 /\ learning_images' =
                      Append(learning_images, generate_image(outcome))
    /\ UNCHANGED <<planner_reply, learning_result, integrator_replies>>
    /\ UNCHANGED <<cleanerVars, clientVars, summaryVars, runs, serverVars>>

iterator_node ==
    /\ learning_node = "iterator"
    /\ LearningStep("iterator", IteratorDelta(learning_state))
    /\ UNCHANGED <<planner_reply, learning_result, learning_images,
                   integrator_replies>>
    /\ UNCHANGED <<cleanerVars, clientVars, summaryVars, runs, serverVars>>

integrator_agent ==
    /\ learning_node = "integrator"
    /\ \/ /\ LearningRaise("integrator", "ModelCallFailed")
          /\ UNCHANGED integrator_replies
       \/ \E reply \in IntegratorReplies :
            /\ LearningStep("integrator", IntegratorDelta(learning_state, reply))
            /\ integrator_replies' = Append(integrator_replies, reply)
    /\ UNCHANGED <<planner_reply, learning_result, learning_images>>
    /\ UNCHANGED <<cleanerVars, clientVars, summaryVars, runs, serverVars>>

\* generate_learning_path after graph.ainvoke: return final_state["curriculum"]
learning_return ==
    /\ learning_node = "END"
    /\ learning_node' = "returned"
    /\ learning_result' = [kind |-> "list", curriculum |-> learning_state.curriculum]
    /\ UNCHANGED <<planner_reply, learning_state, learning_calls, learning_error,
                   learning_images, integrator_replies>>
    /\ UNCHANGED <<cleanerVars, clientVars, summaryVars, runs, serverVars>>

LearningInit ==
    /\ venice \in {VeniceConfig, VeniceConfig \cup {"reasoning_model"}}
    /\ summary_state = NoState
    /\ summary_node = "idle"
    /\ summary_written = {}
    /\ summary_calls = <<>>
    /\ summary_replies = <<>>
    /\ summary_error = [kind |-> "none"]
    /\ summary_result = [kind |-> "none"]
    /\ planner_reply \in PipelinePlannerReplies
    /\ \E topic \in PipelineTopics, level \in EducationLevels :
         learning_state = LearningInitialState(topic, level)
    /\ learning_node = "idle"
    /\ learning_calls = <<>>
    /\ learning_error = [kind |-> "none"]
    /\ learning_result = [kind |-> "none"]
    /\ learning_images = <<>>
    /\ integrator_replies = <<>>
    /\ CleanerIdle
    /\ ClientIdle
    /\ RunsIdle
    /\ ServerIdle

LearningNext ==
    \/ generate_learning_path
    \/ planner_agent
    \/ researcher_writer_agent
    \/ designer_agent
    \/ iterator_node
    \/ integrator_agent
    \/ learning_return

LearningSpec == LearningInit /\ [][LearningNext]_vars

\* the scheduler runs the pipeline to its end: every await completes
FairLearningSpec == LearningSpec /\ WF_vars(LearningNext)

\* the run up to the end of the planner, on every planner response and topic
PlannerInit ==
    /\ venice \in {VeniceConfig, VeniceConfig \cup {"reasoning_model"}}
    /\ summary_state = NoState
    /\ summary_node = "idle"
    /\ summary_written = {}
    /\ summary_calls = <<>>
    /\ summary_replies = <<>>
    /\ summary_error = [kind |-> "none"]
    /\ summary_result = [kind |-> "none"]
    /\ planner_reply \in PlannerReplies
    /\ \E topic \in Topics, level \in EducationLevels :
         learning_state = LearningInitialState(topic, level)
    /\ learning_node = "idle"
    /\ learning_calls = <<>>
    /\ learning_error = [kind |-> "none"]
    /\ learning_result = [kind |-> "none"]
    /\ learning_images = <<>>
    /\ integrator_replies = <<>>
    /\ CleanerIdle
    /\ ClientIdle
    /\ RunsIdle
    /\ ServerIdle

PlannerNext ==
    \/ generate_learning_path
    \/ planner_agent

PlannerSpec == PlannerInit /\ [][PlannerNext]_vars

----------------------------------------------------------------------------
(* Inputs of the text cleaner: up to MaxFrags fragments, among them whole  *)
(* tags in several letter cases and the two halves of a split tag          *)

MaxFrags == 3

Fragments ==
    { OpenTag(think), CloseTag(think),
      <<"<","T","H","I","N","K","I","N","G",">">>, CloseTag(thinking),
      OpenTag(reasoning), <<"<","/","R","e","a","s","o","n","i","n","g",">">>,
      <<"<","t","h","i">>, <<"n","k",">">>,
      <<"a">>, <<" ">>, <<"\n">> }

CleanerInputs ==
    { Flatten(fs) : fs \in UNION { [1..n -> Fragments] : n \in 0..MaxFrags } }

CleanerInit ==
    /\ content \in CleanerInputs
    /\ cleaned = <<>>
    /\ recleaned = <<>>
    /\ cleaner_pc = "input"
    /\ ClientIdle
    /\ SummaryIdle
    /\ LearningIdle
    /\ RunsIdle
    /\ ServerIdle

\* cleaned = strip_reasoning_tokens(content)
CleanOnce ==
    /\ cleaner_pc = "input"
    /\ cleaned' = strip_reasoning_tokens(content)
    /\ cleaner_pc' = "once"
    /\ UNCHANGED <<content, recleaned>>
    /\ UNCHANGED <<clientVars, summaryVars, learningVars, runs, serverVars>>

\* recleaned = strip_reasoning_tokens(cleaned)
CleanTwice ==
    /\ cleaner_pc = "once"
    /\ recleaned' = strip_reasoning_tokens(cleaned)
    /\ cleaner_pc' = "twice"
    /\ UNCHANGED <<content, cleaned>>
    /\ UNCHANGED <<clientVars, summaryVars, learningVars, runs, serverVars>>

CleanerNext == CleanOnce \/ CleanTwice

CleanerSpec == CleanerInit /\ [][CleanerNext]_vars

\* ---- strip_reasoning_tokens as called: its argument is a str or None ----

PyNone == [type |-> "NoneType"]

Str(chars) == [type |-> "str", chars |-> chars]

\* "not content" of Python: None and the empty string are false
Falsy(value) ==
    \/ value.type = "NoneType"
    \/ value.type = "str" /\ value.chars = <<>>

\* a mutant: the guard is content == "", so None reaches re.sub
CallStrip_empty_only(value) ==
    IF value = Str(<<>>) THEN [raised |-> FALSE, value |-> value]
    ELSE IF value.type # "str" THEN [raised |-> TRUE, error |-> "TypeError"]
    ELSE [raised |-> FALSE, value |-> Str(strip_reasoning_tokens(value.chars))]

\* a call of strip_reasoning_tokens: "if not content: return content", then
\* the six re.sub and the strip, which raise TypeError for a non-string
CallStrip(value) ==
    IF Falsy(value) THEN [raised |-> FALSE, value |-> value]
    ELSE IF value.type # "str" THEN [raised |-> TRUE, error |-> "TypeError"]
    ELSE [raised |-> FALSE, value |-> Str(strip_reasoning_tokens(value.chars))]

CallInit ==
    /\ content \in {PyNone} \cup {Str(text) : text \in CleanerInputs}
    /\ cleaned = <<>>
    /\ recleaned = <<>>
    /\ cleaner_pc = "input"
    /\ ClientIdle
    /\ SummaryIdle
    /\ LearningIdle
    /\ RunsIdle
    /\ ServerIdle

\* cleaned = the outcome of strip_reasoning_tokens(content)
CallOnce ==
    /\ cleaner_pc = "input"
    /\ cleaned' = CallStrip(content)
    /\ cleaner_pc' = "once"
    /\ UNCHANGED <<content, recleaned>>
    /\ UNCHANGED <<clientVars, summaryVars, learningVars, runs, serverVars>>

CallSpec == CallInit /\ [][CallOnce]_vars

----------------------------------------------------------------------------
(* The web server: server.py                                               *)

MaxClock == 1

\* f"{prefix}_{datetime.now().strftime('%Y%m%d_%H%M%S')}"
ReportId(prefix, now) == prefix \o "_" \o ToString(now)

\* d[k] = v on a dict
SetKey(d, k, v) == [x \in DOMAIN d \cup {k} |-> IF x = k THEN v ELSE d[x]]

\* d.get(k, default)
Get(d, k, default) == IF k \in DOMAIN d THEN d[k] ELSE default

None == [kind |-> "None"]

\* report_store[report_id] = {"status": "processing", "result": None}
Processing == [status |-> "processing", result |-> None]

\* report_store[report_id]["message"] = message
SetMessage(store, report_id, message) ==
    [store EXCEPT ![report_id] = SetKey(@, "message", message)]

\* the entry the except clause of a background task stores; e is str(e)
ErrorEntry(e) ==
    [status |-> "error", error |-> e, message |-> "Error: " \o e]

\* get_status for a report id in report_store
get_status(report_id) ==
    LET data == report_store[report_id]
    IN  IF data.status = "completed"
        THEN [status |-> "completed", report_id |-> report_id,
              message |-> "Report ready",
              report_url |-> "/api/report/" \o report_id]
        ELSE IF data.status = "error"
        THEN [status |-> "error", report_id |-> report_id,
              message |-> Get(data, "error", "Unknown error")]
        ELSE [status |-> "processing", report_id |-> report_id,
              message |-> Get(data, "message", "Processing...")]

\* the clock reaches the next second
Tick ==
    /\ clock < MaxClock
    /\ clock' = clock + 1
    /\ UNCHANGED <<report_store, tasks, runs>>
    /\ UNCHANGED <<cleanerVars, clientVars, summaryVars, learningVars>>

\* POST /api/learn: the entry is stored and generate_learning_task added.
\* The learning variables hold one call of generate_learning_path, so one
\* request is accepted; its topic and level are those of that call.
learn_topic ==
    /\ tasks = <<>>
    /\ LET report_id == ReportId("learn", clock)
       IN  /\ report_store' =
                [x \in DOMAIN report_store \cup {report_id} |->
                   IF x = report_id THEN Processing ELSE report_store[x]]
           /\ tasks' = Append(tasks,
                [fn |-> "generate_learning_task",
                 report_id |-> report_id,
                 topic |-> learning_state.topic,
                 education_level |-> learning_state.education_level,
                 pc |-> "added"])
    /\ UNCHANGED <<clock, runs>>
    /\ UNCHANGED <<cleanerVars, clientVars, summaryVars, learningVars>>

\* generate_learning_task up to the call of generate_learning_path
LearnTaskStart ==
    /\ \E t \in DOMAIN tasks :
         /\ tasks[t].fn = "generate_learning_task"
         /\ tasks[t].pc = "added"
         /\ report_store' = SetMessage(report_store, tasks[t].report_id,
                                       "Planning curriculum...")
         /\ tasks' = [tasks EXCEPT ![t].pc = "calling"]
    /\ UNCHANGED <<clock, runs>>
    /\ UNCHANGED <<cleanerVars, clientVars, summaryVars, learningVars>>

\* the task's call of generate_learning_path(topic, education_level)
LearnCall ==
    /\ \E t \in DOMAIN tasks :
         /\ tasks[t].fn = "generate_learning_task"
         /\ tasks[t].pc = "calling"
    /\ generate_learning_path

\* "curriculum, topic_definition = <value>": a list of exactly two items is
\* unpacked into its items, any other list raises ValueError
Unpack2(value) ==
    IF Len(value) = 2
    THEN [raised |-> FALSE, first |-> value[1], second |-> value[2]]
    ELSE [raised |-> TRUE, error |-> "ValueError"]

\* generate_learning_html: the template evaluates chapters[0].review_content,
\* which raises UndefinedError unless chapters is a non-empty list (or has a
\* key 0)
generate_learning_html(topic, curriculum, education_level, topic_definition) ==
    IF curriculum.kind = "list" /\ curriculum.items # <<>>
    THEN [raised |-> FALSE,
          html |-> [kind |-> "html", page |-> "learning",
                    chapters |-> curriculum.items]]
    ELSE [raised |-> TRUE, error |-> "UndefinedError"]

\* the entry generate_learning_task stores on success
LessonEntry(html, curriculum, topic_definition, topic) ==
    [status |-> "completed", result |-> html, message |-> "Lesson Ready!",
     curriculum |-> curriculum, topic_definition |-> topic_definition,
     topic |-> topic]

\* what generate_learning_task stores once generate_learning_path has ended
\* by returning value or by raising error
LearnOutcome(task, returned, value, error) ==
    IF ~returned THEN ErrorEntry(error)
    ELSE LET pair == Unpack2(value)
             curriculum == [kind |-> "dict", dict |-> pair.first]
             topic_definition == [kind |-> "dict", dict |-> pair.second]
             page == generate_learning_html(task.topic, curriculum,
                                            task.education_level,
                                            topic_definition)
         IN  IF pair.raised THEN ErrorEntry(pair.error)
             ELSE IF page.raised THEN ErrorEntry(page.error)
             ELSE LessonEntry(page.html, curriculum, topic_definition,
                              task.topic)

\* generate_learning_task after the call: the unpacking, the page, the
\* final entry; the except clause stores the error entry
LearnTaskResume ==
    /\ \E t \in DOMAIN tasks :
         /\ tasks[t].fn = "generate_learning_task"
         /\ tasks[t].pc = "calling"
         /\ learning_node \in {"returned", "raised"}
         /\ report_store' =
              [report_store EXCEPT ![tasks[t].report_id] =
                 LearnOutcome(tasks[t], learning_node = "returned",
                              IF learning_node = "returned"
                              THEN learning_result.curriculum ELSE <<>>,
                              learning_error.kind)]
         /\ tasks' = [tasks EXCEPT ![t].pc = "done"]
    /\ UNCHANGED <<clock, runs>>
    /\ UNCHANGED <<cleanerVars, clientVars, summaryVars, learningVars>>

LearnJobInit == LearningInit

LearnJobNext ==
    \/ Tick
    \/ learn_topic
    \/ LearnTaskStart
    \/ LearnCall
    \/ planner_agent
    \/ researcher_writer_agent
    \/ designer_agent
    \/ iterator_node
    \/ integrator_agent
    \/ learning_return
    \/ LearnTaskResume

LearnJobSpec == LearnJobInit /\ [][LearnJobNext]_vars

\* ---- report jobs: generate_report_task ----

MaxTasks == 2

ReportTypes == {"executive", "linkedin"}

\* the parameters "def analyze_article(...)" declares, and those of them
\* without a default
analyze_article_params == {"article_text", "article_title", "article_url"}

analyze_article_required == {"article_text"}

\* the keywords of generate_report_task's call of analyze_article
AnalysisKeywords ==
    {"article_text", "article_title", "article_url", "progress_callback"}

\* Python binds a keyword call when every keyword names a parameter and
\* every parameter without default is given; otherwise the call raises
\* TypeError before the function body runs
CallBinds(params, required, keywords) ==
    /\ keywords \subseteq params
    /\ required \subseteq keywords

\* report_store[report_id] = {...}; background_tasks.add_task(
\* generate_report_task, ...), as the three summarize handlers do
AddReportTask(prefix, source, generate_images, report_type) ==
    /\ LET report_id == ReportId(prefix, clock)
       IN  /\ report_store' =
                [x \in DOMAIN report_store \cup {report_id} |->
                   IF x = report_id THEN Processing ELSE report_store[x]]
           /\ tasks' = Append(tasks,
                [fn |-> "generate_report_task",
                 report_id |-> report_id,
                 source |-> source,
                 generate_images |-> generate_images,
                 report_type |-> report_type,
                 pc |-> "added",
                 extracted |-> FALSE,
                 progress |-> <<>>])
    /\ UNCHANGED <<clock, runs>>
    /\ UNCHANGED <<cleanerVars, clientVars, summaryVars, learningVars>>

\* POST /api/summarize/url
summarize_url ==
    /\ Len(tasks) < MaxTasks
    /\ \E generate_images \in BOOLEAN, report_type \in ReportTypes :
         AddReportTask("url", "http://x", generate_images, report_type)

\* POST /api/summarize/text
summarize_text ==
    /\ Len(tasks) < MaxTasks
    /\ \E generate_images \in BOOLEAN, report_type \in ReportTypes :
         AddReportTask("text", "article", generate_images, report_type)

\* POST /api/summarize/file with an allowed extension
summarize_file ==
    /\ Len(tasks) < MaxTasks
    /\ \E generate_images \in BOOLEAN, report_type \in ReportTypes :
         AddReportTask("file", "/tmp/upload.txt", generate_images, report_type)

\* the entry generate_report_task stores on success
ReportEntry(html, topic_title) ==
    [status |-> "completed", result |-> html,
     message |-> "Analysis Complete!", topic |-> topic_title]

\* generate_report_task up to "await scraper.extract(source)"
ReportTaskStart ==
    /\ \E t \in DOMAIN tasks :
         /\ tasks[t].fn = "generate_report_task"
         /\ tasks[t].pc = "added"
         /\ report_store' = SetMessage(report_store, tasks[t].report_id,
                                       "Extracting content...")
         /\ tasks' = [tasks EXCEPT ![t].pc = "extracting"]
    /\ UNCHANGED <<clock, runs>>
    /\ UNCHANGED <<cleanerVars, clientVars, summaryVars, learningVars>>

\* from the end of scraper.extract to the next await. The extraction
\* raises or returns the content. The linkedin branch sets its message and
\* awaits the article draft. The other branch calls analyze_article with
\* AnalysisKeywords: the call raises TypeError unless it binds, and the
\* except clause stores the error entry.
ReportTaskExtracted ==
    /\ \E t \in DOMAIN tasks, extracted \in BOOLEAN :
         /\ tasks[t].fn = "generate_report_task"
         /\ tasks[t].pc = "extracting"
         /\ IF ~extracted
            THEN /\ report_store' =
                      [report_store EXCEPT ![tasks[t].report_id] =
                         ErrorEntry("ExtractionFailed")]
                 /\ tasks' = [tasks EXCEPT ![t].pc = "done"]
            ELSE IF tasks[t].report_type = "linkedin"
            THEN /\ report_store' =
                      SetMessage(report_store, tasks[t].report_id,
                                 "Drafting LinkedIn Article...")
                 /\ tasks' = [tasks EXCEPT ![t].pc = "drafting",
                                           ![t].extracted = TRUE]
            ELSE IF CallBinds(analyze_article_params,
                              analyze_article_required, AnalysisKeywords)
            THEN /\ UNCHANGED report_store
                 /\ tasks' = [tasks EXCEPT ![t].pc = "analyzing",
                                           ![t].extracted = TRUE]
            ELSE /\ report_store' =
                      [report_store EXCEPT ![tasks[t].report_id] =
                         ErrorEntry("TypeError")]
                 /\ tasks' = [tasks EXCEPT ![t].pc = "done",
                                           ![t].extracted = TRUE]
    /\ UNCHANGED <<clock, runs>>
    /\ UNCHANGED <<cleanerVars, clientVars, summaryVars, learningVars>>

\* generate_linkedin_html(article_data, hero_image)
generate_linkedin_html(article_data, hero_image) ==
    [kind |-> "html", page |-> "linkedin", article |-> article_data,
     hero |-> hero_image]

\* linkedin branch, from the end of generate_linkedin_article_data to the
\* next await or the end: the model call raises (_call_venice_api after its
\* retries) or the article data is returned (the parsed reply or the
\* fallback structure)
ReportTaskDrafted ==
    /\ \E t \in DOMAIN tasks,
          article_data \in {"ModelCallFailed", "parsed", "fallback"} :
         /\ tasks[t].fn = "generate_report_task"
         /\ tasks[t].pc = "drafting"
         /\ IF article_data = "ModelCallFailed"
            THEN /\ report_store' =
                      [report_store EXCEPT ![tasks[t].report_id] =
                         ErrorEntry("ModelCallFailed")]
                 /\ tasks' = [tasks EXCEPT ![t].pc = "done"]
            ELSE IF tasks[t].generate_images
            THEN /\ report_store' =
                      SetMessage(report_store, tasks[t].report_id,
                                 "Creating Viral Visual...")
                 /\ tasks' = [tasks EXCEPT ![t].pc = article_data]
            ELSE /\ report_store' =
                      [report_store EXCEPT ![tasks[t].report_id] =
                         ReportEntry(
                           generate_linkedin_html(article_data, NoImage),
                           tasks[t].source)]
                 /\ tasks' = [tasks EXCEPT ![t].pc = "done"]
    /\ UNCHANGED <<clock, runs>>
    /\ UNCHANGED <<cleanerVars, clientVars, summaryVars, learningVars>>

\* linkedin branch, from the end of generate_hero_image to the end: the
\* message "Compiling Article..." is overwritten by the final entry in the
\* same step
ReportTaskDrawn ==
    /\ \E t \in DOMAIN tasks, outcome \in ImageOutcomes :
         /\ tasks[t].fn = "generate_report_task"
         /\ tasks[t].pc \in {"parsed", "fallback"}
         /\ report_store' =
              [report_store EXCEPT ![tasks[t].report_id] =
                 ReportEntry(
                   generate_linkedin_html(tasks[t].pc,
                                          generate_image(outcome)),
                   tasks[t].source)]
         /\ tasks' = [tasks EXCEPT ![t].pc = "done"]
    /\ UNCHANGED <<clock, runs>>
    /\ UNCHANGED <<cleanerVars, clientVars, summaryVars, learningVars>>

ReportJobInit ==
    /\ CleanerIdle
    /\ ClientIdle
    /\ SummaryIdle
    /\ LearningIdle
    /\ RunsIdle
    /\ ServerIdle

\* no action continues a task from "analyzing": the call of analyze_article
\* does not bind, so the statements after it are never reached
ReportJobNext ==
    \/ Tick
    \/ summarize_url
    \/ summarize_text
    \/ summarize_file
    \/ ReportTaskStart
    \/ ReportTaskExtracted
    \/ ReportTaskDrafted
    \/ ReportTaskDrawn

ReportJobSpec == ReportJobInit /\ [][ReportJobNext]_vars

----------------------------------------------------------------------------
(* Concurrent runs of analyze_article                                      *)

RunIds == {1, 2}

\* the model replies the concurrent runs draw from
ConcurrentFastReplies == {TextPadded, TextKeyPoints}
ConcurrentReasoningReplies == {ScoreSeven, TextPlain}

\* the delta the node function of a stage returns
NodeDelta(node, state, reply) ==
    CASE node = "reconnaissance" -> ReconDelta(state, reply)
      [] node = "extraction" -> ExtractionDelta(state, reply)
      [] node = "challenger" -> ChallengerDelta(state, reply)
      [] node = "synthesis" -> SynthesisDelta(state, reply)

\* a mutant: the state is one object all runs hold, so a node's delta
\* reaches every started run
Advance_shared_state(rs, r, node, reply) ==
    [q \in DOMAIN rs |->
       IF q = r
       THEN [rs[q] EXCEPT
               !.state = Merge(@, NodeDelta(node, rs[r].state, reply)),
               !.replies = Append(@, reply),
               !.node = Edge(node)]
       ELSE IF rs[q].state = NoState THEN rs[q]
       ELSE [rs[q] EXCEPT
               !.state = Merge(@, NodeDelta(node, rs[r].state, reply))]]

\* graph.ainvoke of run r executes a node: the delta is computed from and
\* merged into the state of that invocation
Advance(rs, r, node, reply) ==
    [rs EXCEPT ![r] =
       [@ EXCEPT !.state = Merge(@, NodeDelta(node, rs[r].state, reply)),
                 !.replies = Append(@, reply),
                 !.node = Edge(node)]]

\* a call of analyze_article begins while others are in flight: a new graph,
\* new agents and a new initial state
concurrent_analyze_article ==
    /\ \E r \in RunIds \ DOMAIN runs :
       \E text \in ArticleTexts, title \in ArticleTitles, url \in ArticleUrls :
         runs' =
           [q \in DOMAIN runs \cup {r} |->
              IF q # r THEN runs[q]
              ELSE IF SummaryAgentsReads \subseteq venice
              THEN [inputs |-> <<text, title, url>>,
                    state |-> InitialState(text, title, url),
                    node |-> EntryPoint,
                    replies |-> <<>>,
                    result |-> [kind |-> "none"]]
              ELSE [inputs |-> <<text, title, url>>,
                    state |-> NoState,
                    node |-> "raised",
                    replies |-> <<>>,
                    result |-> [kind |-> "none"]]]
    /\ UNCHANGED <<cleanerVars, clientVars, summaryVars, learningVars,
                   serverVars>>

\* a node of run r executes: its model call answers or raises
ConcurrentRunNode(node, replies) ==
    /\ \E r \in DOMAIN runs :
         /\ runs[r].node = node
         /\ \/ \E reply \in replies : runs' = Advance(runs, r, node, reply)
            \/ runs' = [runs EXCEPT ![r].node = "raised"]
    /\ UNCHANGED <<cleanerVars, clientVars, summaryVars, learningVars,
                   serverVars>>

concurrent_reconnaissance_scanner ==
    ConcurrentRunNode("reconnaissance", ConcurrentFastReplies)
concurrent_extraction_engine ==
    ConcurrentRunNode("extraction", ConcurrentFastReplies)
concurrent_type2_challenger ==
    ConcurrentRunNode("challenger", ConcurrentReasoningReplies)
concurrent_synthesis_composer ==
    ConcurrentRunNode("synthesis", ConcurrentFastReplies)

\* run r returns its dict
concurrent_analyze_return ==
    /\ \E r \in DOMAIN runs :
         /\ runs[r].node = "END"
         /\ runs' = [runs EXCEPT ![r].node = "returned",
                                 ![r].result = AnalysisData(runs[r].state)]
    /\ UNCHANGED <<cleanerVars, clientVars, summaryVars, learningVars,
                   serverVars>>

ConcurrentInit ==
    /\ CleanerIdle
    /\ ClientIdle
    /\ venice \in {VeniceConfig, VeniceConfig \cup {"reasoning_model"}}
    /\ summary_state = NoState
    /\ summary_node = "idle"
    /\ summary_written = {}
    /\ summary_calls = <<>>
    /\ summary_replies = <<>>
    /\ summary_error = [kind |-> "none"]
    /\ summary_result = [kind |-> "none"]
    /\ LearningIdle
    /\ RunsIdle
    /\ ServerIdle

ConcurrentNext ==
    \/ concurrent_analyze_article
    \/ concurrent_reconnaissance_scanner
    \/ concurrent_extraction_engine
    \/ concurrent_type2_challenger
    \/ concurrent_synthesis_composer
    \/ concurrent_analyze_return

ConcurrentSpec == ConcurrentInit /\ [][ConcurrentNext]_vars

----------------------------------------------------------------------------
(* Properties of the critical-analysis pipeline                            *)

StageOrder == <<"reconnaissance", "extraction", "challenger", "synthesis">>

IsPrefix(s, t) == Len(s) <= Len(t) /\ s = SubSeq(t, 1, Len(s))

\* C1: the stage outputs are written in the order recon_output,
\* extraction_output, challenger_output, synthesis_output: no output is
\* written while its predecessor is unwritten, and the nodes executed so far
\* are a prefix of reconnaissance, extraction, challenger, synthesis.
C1_StageOrder ==
    /\ "extraction_output" \in summary_written => "recon_output" \in summary_written
    /\ "challenger_output" \in summary_written => "extraction_output" \in summary_written
    /\ "synthesis_output" \in summary_written => "challenger_output" \in summary_written
    /\ IsPrefix(summary_calls, StageOrder)

C1_Witness ==
    /\ summary_node = "END"
    /\ summary_calls = StageOrder
    /\ {"recon_output", "extraction_output", "challenger_output",
        "synthesis_output"} \subseteq summary_written

\* the keys each node's delta may write
OwnKeys(node) ==
    CASE node = "reconnaissance" -> {"recon_output"}
      [] node = "extraction" -> {"extraction_output"}
      [] node = "challenger" -> {"challenger_output", "confidence_score"}
      [] node = "synthesis" -> {"synthesis_output", "final_summary",
                                "infographic_prompt", "is_complete"}
      [] OTHER -> {}

\* C3: once the run has started, no step changes article_text, article_title
\* or article_url, no step changes recon_output, extraction_output,
\* challenger_output or confidence_score after a node has written it, and a
\* node writes only its own keys.
C3_AppendOnly ==
    [][ summary_node # "idle" =>
          /\ \A f \in {"article_text", "article_title", "article_url"} :
                summary_state'[f] = summary_state[f]
          /\ \A f \in {"recon_output", "extraction_output",
                        "challenger_output", "confidence_score"} :
                f \in summary_written => summary_state'[f] = summary_state[f]
          /\ summary_written' \subseteq summary_written \cup OwnKeys(summary_node)
      ]_vars

\* a finished run whose earlier outputs are not the initial defaults
C3_Witness ==
    /\ summary_node = "returned"
    /\ summary_state.recon_output # <<>>
    /\ summary_state.extraction_output # <<>>
    /\ summary_state.confidence_score = 7
    /\ summary_result.confidence_score = 7
    /\ summary_result.recon_output = summary_state.recon_output

\* C4: when the cleaned Challenge output holds no Score: X/10 token, the
\* confidence score is 5 after the stage and from then on, also in the dict
\* returned; the run goes on to synthesis, and the only failure still
\* possible is a failing synthesis model call.
C4_DefaultScore ==
    ( /\ "challenger_output" \in summary_written
      /\ score_match(summary_state.challenger_output) = 0 )
    => /\ summary_state.confidence_score = 5
       /\ \/ summary_node \in {"synthesis", "END", "returned"}
          \/ /\ summary_node = "raised"
             /\ summary_error = [kind |-> "ModelCallFailed", node |-> "synthesis"]
       /\ summary_node = "returned" => summary_result.confidence_score = 5

C4_Witness ==
    /\ summary_node = "returned"
    /\ summary_state.challenger_output # <<>>
    /\ score_match(summary_state.challenger_output) = 0
    /\ summary_state.is_complete

\* the canned text reached the state unchanged
Clean(reply) == strip_reasoning_tokens(reply) = reply

\* C5: with no failing model call, analyze_article ends by returning, and
\* for canned texts free of reasoning tags, the Challenge text being
\* "Score: 7/10", the final state has confidence_score 7, is_complete true
\* and the four outputs equal to the canned texts.
C5_EndToEnd ==
    ( /\ summary_node \in {"returned", "raised"}
      /\ summary_error.kind # "ModelCallFailed" )
    => /\ summary_node = "returned"
       /\ ( /\ \A i \in 1..4 : Clean(summary_replies[i])
            /\ summary_replies[3] = ScoreSeven )
          => /\ summary_state.confidence_score = 7
             /\ summary_state.is_complete
             /\ summary_state.recon_output = summary_replies[1]
             /\ summary_state.extraction_output = summary_replies[2]
             /\ summary_state.challenger_output = summary_replies[3]
             /\ summary_state.synthesis_output = summary_replies[4]

\* C11: is_complete is false until the synthesis node has run: it is true
\* exactly when synthesis_output has been written, which is after all four
\* nodes ran in order, and the end of the graph is reached only with
\* is_complete true.
C11_CompleteOnlyAfterSynthesis ==
    /\ summary_state.is_complete <=> "synthesis_output" \in summary_written
    /\ summary_state.is_complete =>
          /\ summary_calls = StageOrder
          /\ summary_node \in {"END", "returned"}
    /\ summary_node \in {"END", "returned"} => summary_state.is_complete

\* the state right after Synthesis
C11_Witness ==
    /\ summary_node = "END"
    /\ summary_state.is_complete
    /\ "synthesis_output" \in summary_written
    /\ summary_state.challenger_output # <<>>

\* the position of a node in the stage order
StageIndex(node) == CHOOSE i \in 1..4 : StageOrder[i] = node

\* the output key a node writes
OutputOf(node) ==
    CASE node = "reconnaissance" -> "recon_output"
      [] node = "extraction" -> "extraction_output"
      [] node = "challenger" -> "challenger_output"
      [] node = "synthesis" -> "synthesis_output"

\* C12: when the model call of node N has failed, the run has ended by
\* raising: the nodes executed are those up to N, each once and none after
\* N; N's output and the outputs of the later nodes are unwritten; nothing
\* is returned; and no further step is taken.
C12_FailureHalts ==
    /\ [](summary_error.kind = "ModelCallFailed" =>
            /\ summary_node = "raised"
            /\ summary_calls = SubSeq(StageOrder, 1, StageIndex(summary_error.node))
            /\ \A i \in StageIndex(summary_error.node)..4 :
                  OutputOf(StageOrder[i]) \notin summary_written
            /\ summary_result = [kind |-> "none"])
    /\ [][summary_node = "raised" => UNCHANGED summaryVars]_vars

\* the challenger's model call failed after two nodes had completed
C12_Witness ==
    /\ summary_node = "raised"
    /\ summary_error = [kind |-> "ModelCallFailed", node |-> "challenger"]
    /\ summary_calls = <<"reconnaissance", "extraction", "challenger">>

\* C14: once the run has started, confidence_score is an integer in 1..10.
C14_ScoreRange ==
    summary_node \notin {"idle", "raised"} \/ summary_calls # <<>>
        => summary_state.confidence_score \in 1..10

\* C16: when a node failed after earlier nodes completed, the caller holds,
\* besides the exception, the outputs merged before the failure.
C16_PartialStateReturned ==
    (summary_node = "raised" /\ "recon_output" \in summary_written)
        => /\ summary_result.kind = "dict"
           /\ summary_result.recon_output = summary_state.recon_output

----------------------------------------------------------------------------
(* Properties of the curriculum pipeline                                   *)

\* the number of times a node has been executed in the run
Executions(node) ==
    Cardinality({i \in DOMAIN learning_calls : learning_calls[i] = node})

FailingReplies ==
    {Apology, TextEmpty, DocTruncated, DocChapters(0), DocNoKey,
     Prose \o DocChapters(0), Fence \o <<"\n">> \o DocTruncated \o <<"\n">> \o Fence}

\* C6: when the planner has returned, the curriculum is never empty and
\* current_chapter_index is 0; and when the extraction from the cleaned
\* response failed, the curriculum is exactly 3 chapters, each with a
\* non-empty title, for every topic (the empty one included).
C6_PlannerFallback ==
    (learning_calls = <<"planner">> /\ learning_node # "raised") =>
        /\ learning_state.curriculum # <<>>
        /\ learning_state.current_chapter_index = 0
        /\ ( \/ planner_reply \in FailingReplies
             \/ Extracted(strip_reasoning_tokens(planner_reply)).raised )
           => /\ Len(learning_state.curriculum) = 3
              /\ \A i \in 1..3 : learning_state.curriculum[i].title # <<>>
              /\ learning_state.curriculum[1].title
                    = IntroductionTo \o learning_state.topic

\* the planner fell back on an answer without JSON, for the empty topic
C6_Witness ==
    /\ learning_calls = <<"planner">>
    /\ learning_node = "research_write"
    /\ planner_reply = Apology
    /\ learning_state.topic = <<>>
    /\ Len(learning_state.curriculum) = 3

\* C13: a failing model call of the planner does not end the run: the run
\* is never raised by the planner's model call, and once the planner has
\* been executed the curriculum is not empty.
C13_PlannerCallFailureFallsBack ==
    Executions("planner") >= 1 =>
        /\ \/ learning_error.kind # "ModelCallFailed"
           \/ learning_error.node # "planner"
        /\ learning_state.curriculum # <<>>

\* C20: when generate_image returned None to the k-th designer run, that
\* run returned normally and control went to the iterator, chapter k keeps
\* an empty image_url and image_prompt from then on, and the run goes on
\* to the integrator unless a later model call fails.
C20_ImageFailureNonFatal ==
    /\ [](\A k \in DOMAIN learning_images :
            learning_images[k] = NoImage =>
               /\ Executions("designer") >= k
               /\ learning_state.curriculum[k].image_url = <<>>
               /\ learning_state.curriculum[k].image_prompt = <<>>)
    /\ [][ ( /\ learning_images' # learning_images
             /\ learning_images'[Len(learning_images')] = NoImage )
           => /\ learning_node = "designer"
              /\ learning_node' = "iterator"
              /\ learning_error' = [kind |-> "none"] ]_vars
    /\ ((\E k \in DOMAIN learning_images : learning_images[k] = NoImage)
          ~> \/ Executions("integrator") = 1
             \/ /\ learning_node = "raised"
                /\ learning_error.kind = "ModelCallFailed")

\* a returned run whose first chapter got no image and whose second did
C20_Witness ==
    /\ learning_node = "returned"
    /\ Len(learning_images) >= 2
    /\ learning_images[1] = NoImage
    /\ learning_images[2] = "image"
    /\ learning_state.curriculum[1].image_url = <<>>
    /\ learning_state.curriculum[2].image_url # <<>>

----------------------------------------------------------------------------
(* Properties of the web server                                            *)

\* the tasks of the critical-analysis pipeline
AnalysisTasks ==
    {t \in DOMAIN tasks : /\ tasks[t].fn = "generate_report_task"
                          /\ tasks[t].report_type # "linkedin"}

\* C15: the job of a critical-analysis task is shown as completed only if
\* the four stages of that task's run completed, that is only if the task
\* passed the analysis and stored its report.
C15_CompletedOnlyAfterFourStages ==
    \A t \in AnalysisTasks :
        get_status(tasks[t].report_id).status = "completed"
        => /\ tasks[t].pc = "done"
           /\ report_store[tasks[t].report_id].result.page = "analysis"

\* C17: once a critical-analysis task whose content was extracted has
\* ended, its progress callback was invoked four times, once per stage, and
\* the job completed.
C17_CallbackAfterEachStage ==
    \A t \in AnalysisTasks :
        (tasks[t].pc = "done" /\ tasks[t].extracted)
        => /\ Len(tasks[t].progress) = 4
           /\ report_store[tasks[t].report_id].status = "completed"

\* C29: any two accepted requests have different report ids, so that each
\* entry of report_store belongs to one background task.
C29_DistinctReportIds ==
    \A t \in DOMAIN tasks : \A u \in DOMAIN tasks \ {t} :
        tasks[t].report_id # tasks[u].report_id

\* C30: an entry is created with status processing, a completed entry has
\* its result, and an entry whose status is completed or error is never
\* changed again.
C30_TerminalAbsorbing ==
    /\ [](\A id \in DOMAIN report_store :
            /\ report_store[id].status \in {"processing", "completed", "error"}
            /\ report_store[id].status = "completed" =>
                  report_store[id].result.kind = "html")
    /\ [][\A id \in DOMAIN report_store' \ DOMAIN report_store :
            report_store'[id] = Processing]_vars
    /\ [][\A id \in DOMAIN report_store :
            report_store[id].status \in {"completed", "error"} =>
              report_store'[id] = report_store[id]]_vars

\* C18: when the learning task has ended and no model call of the run
\* failed, the job's entry has status completed and holds the run's chapter
\* list as its curriculum.
C18_LearningJobCompletes ==
    \A t \in DOMAIN tasks :
        ( /\ tasks[t].fn = "generate_learning_task"
          /\ tasks[t].pc = "done"
          /\ learning_error.kind # "ModelCallFailed" )
        => /\ report_store[tasks[t].report_id].status = "completed"
           /\ report_store[tasks[t].report_id].curriculum
                = [kind |-> "list", items |-> learning_state.curriculum]

----------------------------------------------------------------------------
(* Properties of concurrent runs                                           *)

\* the state a run executed alone has after the first k of its replies
RECURSIVE AloneAfter(_, _, _)
AloneAfter(inputs, replies, k) ==
    IF k = 0 THEN InitialState(inputs[1], inputs[2], inputs[3])
    ELSE LET before == AloneAfter(inputs, replies, k - 1)
         IN  Merge(before, NodeDelta(StageOrder[k], before, replies[k]))

\* the replies a stage's model may give, and the reply sequences of the
\* first n stages
RepliesOf(node) ==
    IF node = "challenger" THEN ConcurrentReasoningReplies
    ELSE ConcurrentFastReplies

RECURSIVE ReplySeqs(_)
ReplySeqs(n) ==
    IF n = 0 THEN {<<>>}
    ELSE {Append(s, x) : s \in ReplySeqs(n - 1), x \in RepliesOf(StageOrder[n])}

\* every run executed alone: its inputs, its replies so far, its state
AloneRuns ==
    {<<inputs, replies, AloneAfter(inputs, replies, Len(replies))>> :
        inputs \in ArticleTexts \X ArticleTitles \X ArticleUrls,
        replies \in UNION {ReplySeqs(n) : n \in 0..4}}

\* the run has a state: its agents were constructed
Started(r) == r \in DOMAIN runs /\ runs[r].state # NoState

----------------------------------------------------------------------------
(* Properties of the model client                                          *)

Ended == client_pc \in {"returned", "raised"}

\* C7: when every request is answered 429, the call makes exactly 3 requests
\* and ends by raising a rate-limit failure.
C7_RateLimitRaises ==
    (Ended /\ \A i \in 1..Len(requests) : requests[i] = RateLimited)
    => /\ Len(requests) = 3
       /\ client_pc = "raised"

----------------------------------------------------------------------------
(* Properties of the text cleaner                                          *)

\* C9: strip_reasoning_tokens is idempotent: cleaning the cleaned text
\* changes nothing.
C9_Idempotent == cleaner_pc = "twice" => recleaned = cleaned

\* C10: the cleaned text holds no thinking, reasoning or think tag in any
\* letter case, and an input without tags is returned trimmed.
C10_NoTagLeft ==
    cleaner_pc # "input" =>
        /\ ~HasTag(cleaned)
        /\ ~HasTag(content) => cleaned = PyStrip(content)

\* C21: a call of strip_reasoning_tokens on a string or None does not
\* raise, and an empty string or None is returned unchanged.
C21_NeverRaises ==
    cleaner_pc = "once" =>
        /\ ~cleaned.raised
        /\ Falsy(content) => cleaned.value = content

\* the call was made on None
C21_Witness == cleaner_pc = "once" /\ content = PyNone

----------------------------------------------------------------------------
(* Properties of the curriculum loop                                       *)

\* C22: a step of the iterator changes no chapter; when another chapter
\* follows it adds exactly 1 to current_chapter_index, leaves is_complete
\* false and hands control to the writer; otherwise it sets is_complete,
\* leaves current_chapter_index as it is and hands control to the integrator.
C22_IteratorDecision ==
    [][(learning_node = "iterator" /\ learning_calls' # learning_calls) =>
         /\ learning_state'.curriculum = learning_state.curriculum
         /\ learning_state'.topic = learning_state.topic
         /\ learning_state'.final_report = learning_state.final_report
         /\ IF learning_state.current_chapter_index + 1
                  < Len(learning_state.curriculum)
            THEN /\ learning_state'.current_chapter_index
                      = learning_state.current_chapter_index + 1
                 /\ ~learning_state'.is_complete
                 /\ learning_node' = "research_write"
            ELSE /\ learning_state'.current_chapter_index
                      = learning_state.current_chapter_index
                 /\ learning_state'.is_complete
                 /\ learning_node' = "integrator"]_vars

\* the iterator has looped and then handed over to the integrator
C22_Witness ==
    /\ learning_node = "integrator"
    /\ learning_state.current_chapter_index >= 1
    /\ learning_state.is_complete

\* the nodes a run over n chapters executes, in order
RECURSIVE ChapterCalls(_)
ChapterCalls(n) ==
    IF n = 0 THEN <<>>
    ELSE ChapterCalls(n - 1) \o <<"research_write", "designer", "iterator">>

ExpectedCalls(n) == <<"planner">> \o ChapterCalls(n) \o <<"integrator">>

\* C23: the nodes executed so far are a prefix of planner, then writer,
\* designer, iterator once per chapter in index order, then integrator; the
\* writer is about to run on chapter i after exactly i writer executions,
\* the designer on chapter i after the writer ran on it; and the run that
\* reached the end executed the whole sequence, the integrator last.
C23_StageAlternation ==
    learning_calls # <<>> =>
        /\ IsPrefix(learning_calls,
                    ExpectedCalls(Len(learning_state.curriculum)))
        /\ learning_node = "research_write" =>
              Executions("research_write")
                 = learning_state.current_chapter_index
        /\ learning_node = "designer" =>
              /\ Executions("designer") = learning_state.current_chapter_index
              /\ Executions("research_write")
                    = learning_state.current_chapter_index + 1
        /\ learning_node \in {"END", "returned"} =>
              learning_calls = ExpectedCalls(Len(learning_state.curriculum))

\* a run over two chapters or more has returned
C23_Witness ==
    /\ learning_node = "returned"
    /\ Len(learning_state.curriculum) >= 2
    /\ learning_calls[Len(learning_calls)] = "integrator"

\* C24: a writer or designer step at index i leaves the chapter count, the
\* index, every other chapter and chapter i's title, description and
\* review_content as they were; the writer leaves the image fields and the
\* designer the content; and the content of a chapter the writer has run on
\* is not changed by any later step.
C24_ChapterFrame ==
    /\ [][( /\ learning_node \in {"research_write", "designer"}
            /\ learning_calls' # learning_calls
            /\ learning_node' # "raised" ) =>
           LET i == learning_state.current_chapter_index + 1
               before == learning_state.curriculum
               after == learning_state'.curriculum
           IN  /\ Len(after) = Len(before)
               /\ learning_state'.current_chapter_index
                     = learning_state.current_chapter_index
               /\ \A j \in DOMAIN before \ {i} : after[j] = before[j]
               /\ after[i].title = before[i].title
               /\ after[i].description = before[i].description
               /\ after[i].review_content = before[i].review_content
               /\ learning_node = "research_write" =>
                     /\ after[i].image_prompt = before[i].image_prompt
                     /\ after[i].image_url = before[i].image_url
               /\ learning_node = "designer" =>
                     after[i].content = before[i].content]_vars
    /\ [][\A j \in DOMAIN learning_state.curriculum :
            Executions("research_write") >= j =>
              learning_state'.curriculum[j].content
                 = learning_state.curriculum[j].content]_vars

\* the writer and the designer have run on the second chapter
C24_Witness ==
    /\ learning_node = "iterator"
    /\ learning_state.current_chapter_index = 1
    /\ learning_state.curriculum[2].content # <<>>
    /\ learning_state.curriculum[2].image_url # <<>>
    /\ learning_state.curriculum[1].content # <<>>

\* the run raised before the planner returned
PlannerRaised ==
    learning_error.kind # "none" /\ learning_error.node \in {"build", "planner"}

\* C27: the first node executed is the planner and it is executed once;
\* when it has returned current_chapter_index is 0; and no later step changes
\* the number of chapters.
C27_PlannerOnce ==
    /\ [](learning_calls # <<>> =>
            /\ learning_calls[1] = "planner"
            /\ Executions("planner") = 1)
    /\ []((Len(learning_calls) = 1 /\ ~PlannerRaised) =>
            learning_state.current_chapter_index = 0)
    /\ [][learning_calls # <<>> =>
            Len(learning_state'.curriculum) = Len(learning_state.curriculum)]_vars

\* a run over two chapters has reached the end of the graph
C27_Witness ==
    /\ learning_node = "END"
    /\ Len(learning_state.curriculum) = 2
    /\ Executions("planner") = 1

\* C28: once the planner has returned, the curriculum is not empty and
\* current_chapter_index is an index of it; the writer and the designer find
\* their chapter and no run raises IndexError; and is_complete holds only at
\* the last index.
C28_IndexInRange ==
    (learning_calls # <<>> /\ ~PlannerRaised) =>
        /\ learning_state.curriculum # <<>>
        /\ learning_state.current_chapter_index
              \in 0..(Len(learning_state.curriculum) - 1)
        /\ learning_node \in {"research_write", "designer"} =>
              InRange(learning_state)
        /\ learning_error.kind # "IndexError"
        /\ learning_state.is_complete =>
              learning_state.current_chapter_index
                 = Len(learning_state.curriculum) - 1

\* the designer is about to run on the last chapter of the longest curriculum
C28_Witness ==
    /\ learning_node = "designer"
    /\ Len(learning_state.curriculum) = MaxChapters
    /\ learning_state.current_chapter_index = MaxChapters - 1

\* C25: in a run that has reached the end of the graph the first chapter's
\* review_content is the cleaned response of the integrator's model call and
\* the review_content of every other chapter is empty; and the integrator's
\* step changes nothing of the chapters but review_content, nor the index.
C25_ReviewInFirstChapter ==
    /\ [](learning_node \in {"END", "returned"} =>
            /\ Len(integrator_replies) = 1
            /\ learning_state.curriculum[1].review_content
                  = strip_reasoning_tokens(integrator_replies[1])
            /\ \A j \in 2..Len(learning_state.curriculum) :
                  learning_state.curriculum[j].review_content = <<>>)
    /\ [][(learning_node = "integrator" /\ learning_node' = "END") =>
            /\ Len(learning_state'.curriculum) = Len(learning_state.curriculum)
            /\ \A j \in DOMAIN learning_state.curriculum :
                  [learning_state'.curriculum[j] EXCEPT
                     !.review_content =
                        learning_state.curriculum[j].review_content]
                  = learning_state.curriculum[j]
            /\ learning_state'.current_chapter_index
                  = learning_state.current_chapter_index
            /\ learning_state'.is_complete = learning_state.is_complete]_vars

\* a returned run over several chapters with a review in the first one
C25_Witness ==
    /\ learning_node = "returned"
    /\ Len(learning_state.curriculum) >= 2
    /\ learning_state.curriculum[1].review_content # <<>>
    /\ integrator_replies # <<>>

----------------------------------------------------------------------------
(* Properties of the planner's extraction                                  *)

\* the chapters of the well-formed document with n chapters
DocumentChapters(n) ==
    ChaptersOf((CHOOSE d \in JsonDocuments : d.text = DocChapters(n)).data).chapters

\* C26: when the planner has returned and its cleaned response contains a
\* well-formed JSON object with a non-empty chapters list, the curriculum is
\* the chapters of that object and not the fallback.
C26_TieredExtraction ==
    (learning_calls = <<"planner">> /\ learning_node # "raised") =>
        \A n \in 1..MaxChapters :
            Contains(strip_reasoning_tokens(planner_reply), DocChapters(n), FALSE)
            => learning_state.curriculum = DocumentChapters(n)

============================================================================
